---- MODULE Spec2Model ----
(***************************************************************************)
(* devtul-core: the snapshot store (ingestor.py over the SQLAlchemy        *)
(* mapping of db_models.py) and the scanning factory (fs_factory.py).      *)
(*                                                                         *)
(* Store half.  One SQLAlchemy Session over one database:                  *)
(*   db   the committed rows of the four logical tables                    *)
(*   tx   the rows flushed (INSERTed) in the session's open transaction    *)
(*   new  session.new: objects given to session.add and not yet flushed    *)
(*   result  the last call: its arguments (the tree left out) and what it  *)
(*           returned or raised                                            *)
(*                                                                         *)
(* Scan half.  One FileSystemFactory over one root directory:              *)
(*   fs       the root directory: its files and directories, and what the  *)
(*            version-control query answers                                *)
(*   factory  the FileSystemFactory instance with its two caches           *)
(*   ret      the last call on the factory and what it returned or raised  *)
(***************************************************************************)
EXTENDS Integers, Sequences, FiniteSets, TLC

VARIABLES db, tx, new, result, fs, factory, ret, sessions

vars == <<db, tx, new, result, fs, factory, ret, sessions>>

\* ------------------------------------------------------------------ bounds

\* The largest primary key an ingest may assign to a RootIdentity or Snapshot
\* row: ingest_scan is not started once it would pass it.
MaxRowId == 2

\* ------------------------------------------------------------- Python values

\* Python's None, for an optional str argument.
None == "<None>"

\* bool(x) of a `str | None`: None and the empty string are falsy.
Truthy(s) == s # None /\ s # ""

\* Path(root_path).name: the final segment, "" for the filesystem root.
\* A root_path is modelled by its sequence of segments.
PathName(root_path) ==
    IF Len(root_path) = 0 THEN "" ELSE root_path[Len(root_path)]

Max(S) == CHOOSE m \in S : \A n \in S : n <= m

\* ------------------------------------------------------- the in-memory tree

\* BaseModel.model_dump(): the mapping of the model's fields.
model_dump(m) == [k \in DOMAIN m |-> m[k]]

\* FileLinesModel.model_dump(): the fields plus the computed line_count.
lines_model_dump(m) ==
    [lines |-> [i \in 1..Len(m.lines) |-> model_dump(m.lines[i])],
     line_count |-> Len(m.lines)]

make_stat == [st_size |-> 100, st_mtime |-> 123456]

make_path(name, parent) == [name |-> name, parent |-> parent]

\* BaseFileModel: a generic file.
PyBaseFile(sha, name, parent) ==
    [cls |-> "BaseFileModel", sha256 |-> sha, stat_json |-> make_stat,
     path_json |-> make_path(name, parent)]

\* fs_models.TextFileModel
PyTextFile(sha, name, parent, content) ==
    [cls |-> "TextFileModel", sha256 |-> sha, stat_json |-> make_stat,
     path_json |-> make_path(name, parent), content |-> content,
     lines_json |-> [lines |-> <<[content |-> content, line_number |-> 1]>>]]

\* fs_models.ImageFileModel: the thumbnail field is spelled thubnail_b64_data.
PyImageFile(sha, name, parent, thumb) ==
    [cls |-> "ImageFileModel", sha256 |-> sha, stat_json |-> make_stat,
     path_json |-> make_path(name, parent), b64_data |-> "fakebase64",
     thubnail_b64_data |-> thumb, exif_data |-> [camera |-> "canon"],
     fmt |-> "png"]

\* BaseDirectoryModel
PyDirectory(name, files, directories) ==
    [path_json |-> make_path(name, "root"), stat_json |-> make_stat,
     files |-> files, directories |-> directories]

txt_file == PyTextFile("hash_text", "readme.md", "root", "Hello World")
img_file == PyImageFile("hash_img", "logo.png", "subdir", "thumbbase64")
bin_file == PyBaseFile("hash_bin", "data.bin", "subdir")
bin_file2 == PyBaseFile("hash_bin2", "deep.bin", "nested")
txt_file2 == PyTextFile("hash_text2", "notes.md", "other", "Bye")

\* The trees given to ingest_scan.
SampleTrees ==
    { PyDirectory("root", <<>>, <<>>),
      \* the fixture of test_db_ingest.py: root[txt] -> subdir[img, bin]
      PyDirectory("root", <<txt_file>>,
                  <<PyDirectory("subdir", <<img_file, bin_file>>, <<>>)>>),
      \* depth-first differs from breadth-first on this one
      PyDirectory("root", <<txt_file>>,
                  <<PyDirectory("subdir", <<bin_file>>,
                                <<PyDirectory("nested", <<bin_file2>>, <<>>)>>),
                    PyDirectory("other", <<txt_file2>>, <<>>)>>) }

\* root_path arguments: "/" and "/x/b".
RootPaths == { <<>>, <<"x", "b">> }

\* repo_name arguments.
RepoNames == { None, "a" }

\* folder_name arguments.
FolderNames == { None, "", "a" }

\* ------------------------------------------------------------ the session

EmptyTables ==
    [repositories |-> {}, folders |-> {}, snapshots |-> {}, files |-> {}]

Tables == {"repositories", "folders", "snapshots", "files"}

\* The rows a statement of this session reads: committed rows and the rows of
\* its own open transaction.
Rows(s, table) == s.db[table] \cup s.tx[table]

\* The next INTEGER PRIMARY KEY of a table.
NextId(s, table) == Max({r.id : r \in Rows(s, table)} \cup {0}) + 1

RECURSIVE FlushRows(_, _, _)
\* INSERT the pending objects in the order they were added.
FlushRows(pending, nextId, acc) ==
    IF pending = <<>> THEN acc
    ELSE FlushRows(Tail(pending), nextId + 1,
                   acc \cup {[id |-> nextId] @@ Head(pending)})

\* Session.flush(); also what autoflush does before every query.
flush(s) ==
    [s EXCEPT !.tx.files = FlushRows(s.new, NextId(s, "files"), @),
              !.new = <<>>]

\* Session.commit(): flush, then make the transaction's rows durable.
commit(s) ==
    LET f == flush(s) IN
    [db |-> [t \in Tables |-> f.db[t] \cup f.tx[t]],
     tx |-> EmptyTables, new |-> <<>>]

\* Session.rollback(): the transaction's rows and every pending object go.
rollback(s) == [db |-> s.db, tx |-> EmptyTables, new |-> <<>>]

Session == [db |-> db, tx |-> tx, new |-> new]

\* ------------------------------------------------------------ ingest_scan

\* `snapshot` before either branch has assigned it.
Unbound == [unbound |-> TRUE]

\* hasattr(obj, attr) for a pydantic model: attr is one of its fields.
HasAttr(obj, attr) == attr \in DOMAIN obj

\* The check of line 33 is missing.
BothSelected_unchecked(repo_name, folder_name) == FALSE

\* if folder_name and repo_name: raise ValueError
BothSelected(repo_name, folder_name) == Truthy(folder_name) /\ Truthy(repo_name)

\* if not repo_name and not folder_name: folder_name = Path(root_path).name
DefaultFolderName(root_path, repo_name, folder_name) ==
    IF ~Truthy(repo_name) /\ ~Truthy(folder_name)
    THEN PathName(root_path) ELSE folder_name

\* The name column carries no unique constraint.
UniqueViolation_unenforced(s, table, name) == FALSE

\* name: Mapped[str] = mapped_column(String, unique=True): an INSERT of a
\* second row of that name into the table violates the constraint.
UniqueViolation(s, table, name) == \E r \in Rows(s, table) : r.name = name

\* session.add(row); session.flush() of a new RootIdentity row.  A flush that
\* violates a constraint raises IntegrityError and rolls the transaction back.
insert_root(s, table, row) ==
    IF UniqueViolation(s, table, row.name)
    THEN [s |-> rollback(s), row |-> row, error |-> "IntegrityError"]
    ELSE [s |-> [s EXCEPT !.tx[table] = @ \cup {row}], row |-> row,
          error |-> "none"]

\* The lookup filters on the path instead of the name.
find_or_create_by_path(s, table, name, root_path) ==
    LET q == flush(s)
        found == {r \in Rows(q, table) : r.path = root_path}
    IN  IF found # {}
        THEN [s |-> q, error |-> "none",
              row |-> CHOOSE r \in found : \A o \in found : r.id <= o.id]
        ELSE insert_root(q, table,
                 [id |-> NextId(q, table), name |-> name, path |-> root_path])

\* session.query(T).filter_by(name=name).first(), then, if there is none,
\* T(name=name, path=root_path); session.add; session.flush.
\* The query autoflushes the session first.
find_or_create(s, table, name, root_path) ==
    LET q == flush(s)
        found == {r \in Rows(q, table) : r.name = name}
    IN  IF found # {}
        THEN [s |-> q, error |-> "none",
              row |-> CHOOSE r \in found : \A o \in found : r.id <= o.id]
        ELSE insert_root(q, table,
                 [id |-> NextId(q, table), name |-> name, path |-> root_path])

\* A snapshot row of the repository is taken again when there is one.
RepoSnapshot_reused(s, repo) ==
    LET mine == {x \in Rows(s, "snapshots") :
                   x.type = "repo_snapshot" /\ x.repository_id = repo.id}
    IN  IF mine # {} THEN CHOOSE x \in mine : TRUE
        ELSE [id |-> NextId(s, "snapshots"), type |-> "repo_snapshot",
              repository_id |-> repo.id]

\* RepoSnapshot(repository_id=repo.id); session.add; session.flush
RepoSnapshot(s, repo) ==
    [id |-> NextId(s, "snapshots"), type |-> "repo_snapshot",
     repository_id |-> repo.id]

\* The folder snapshot's foreign key points into the repositories table.
FolderSnapshot_to_repositories(s, folder) ==
    [id |-> NextId(s, "snapshots"), type |-> "repo_snapshot",
     repository_id |-> folder.id]

\* FolderSnapshot(folder_id=folder.id); session.add; session.flush
FolderSnapshot(s, folder) ==
    [id |-> NextId(s, "snapshots"), type |-> "folder_snapshot",
     folder_id |-> folder.id]

add_snapshot(s, snapshot) ==
    [s |-> [s EXCEPT !.tx.snapshots = @ \cup {snapshot}],
     snapshot |-> snapshot, error |-> "none"]

\* Lines 37-58: the branch on the selected identity.
select_identity(s, root_path, repo_name, folder_name) ==
    IF Truthy(repo_name)
    THEN LET r == find_or_create(s, "repositories", repo_name, root_path)
         IN  IF r.error # "none"
             THEN [s |-> r.s, snapshot |-> Unbound, error |-> r.error]
             ELSE add_snapshot(r.s, RepoSnapshot(r.s, r.row))
    ELSE IF Truthy(folder_name)
    THEN LET f == find_or_create(s, "folders", folder_name, root_path)
         IN  IF f.error # "none"
             THEN [s |-> f.s, snapshot |-> Unbound, error |-> f.error]
             ELSE add_snapshot(f.s, FolderSnapshot(f.s, f.row))
    ELSE [s |-> s, snapshot |-> Unbound, error |-> "none"]

common_data(snapshot, p_file) ==
    [snapshot_id |-> snapshot.id, sha256 |-> p_file.sha256,
     path_json |-> model_dump(p_file.path_json),
     stat_json |-> model_dump(p_file.stat_json)]

\* The attribute of the pydantic image model that line 83 reads.
ThumbnailAttr == "thumbnail_b64_data"

\* One pass of the loop body of _recurse_save: build db_file, session.add it.
\* acc = [new |-> session.new, error |-> the exception raised, or "none"].
save_file(p_file, snapshot, acc) ==
    IF snapshot = Unbound
    THEN [acc EXCEPT !.error = "NameError"]
    ELSE IF p_file.cls = "TextFileModel"
    THEN [acc EXCEPT !.new = Append(@,
            [type |-> "text", content |-> p_file.content,
             lines_json |-> lines_model_dump(p_file.lines_json)]
            @@ common_data(snapshot, p_file))]
    ELSE IF p_file.cls = "ImageFileModel"
    THEN IF ~HasAttr(p_file, ThumbnailAttr)
         THEN [acc EXCEPT !.error = "AttributeError"]
         ELSE [acc EXCEPT !.new = Append(@,
                [type |-> "image", b64_data |-> p_file.b64_data,
                 thumbnail_b64_data |-> p_file[ThumbnailAttr],
                 exif_data |-> p_file.exif_data, fmt |-> p_file.fmt]
                @@ common_data(snapshot, p_file))]
    ELSE [acc EXCEPT !.new = Append(@,
            [type |-> "file"] @@ common_data(snapshot, p_file))]

RECURSIVE save_files(_, _, _)
\* for p_file in directory.files
save_files(files, snapshot, acc) ==
    IF files = <<>> \/ acc.error # "none" THEN acc
    ELSE save_files(Tail(files), snapshot, save_file(Head(files), snapshot, acc))

RECURSIVE _recurse_save(_, _, _)
RECURSIVE save_subdirs(_, _, _)
\* for subdir in directory.directories: _recurse_save(subdir)
save_subdirs(directories, snapshot, acc) ==
    IF directories = <<>> \/ acc.error # "none" THEN acc
    ELSE save_subdirs(Tail(directories), snapshot,
                      _recurse_save(Head(directories), snapshot, acc))

\* The files of the directory first, then each subdirectory in turn.
_recurse_save(directory, snapshot, acc) ==
    save_subdirs(directory.directories, snapshot,
                 save_files(directory.files, snapshot, acc))

\* The whole call: the session it leaves and what it returned or raised.
ingest_scan(s, root_path, dir_model, repo_name, folder_name) ==
    IF BothSelected(repo_name, folder_name)
    THEN [s |-> s, outcome |-> "ValueError", snapshot |-> 0]
    ELSE
    LET sel == select_identity(s, root_path, repo_name,
                   DefaultFolderName(root_path, repo_name, folder_name))
        saved == _recurse_save(dir_model, sel.snapshot,
                               [new |-> sel.s.new, error |-> "none"])
        added == [sel.s EXCEPT !.new = saved.new]
    IN  IF sel.error # "none"
        THEN [s |-> sel.s, outcome |-> sel.error, snapshot |-> 0]
        ELSE IF saved.error # "none"
        THEN [s |-> added, outcome |-> saved.error, snapshot |-> 0]
        ELSE IF sel.snapshot = Unbound
        THEN [s |-> commit(added), outcome |-> "UnboundLocalError", snapshot |-> 0]
        ELSE [s |-> commit(added), outcome |-> "ok", snapshot |-> sel.snapshot.id]

\* ------------------------------------------------- deletion under the mapping

\* The RootIdentity a snapshot row points at: <<table, id>>.
Owner(snapshot) ==
    IF snapshot.type = "repo_snapshot"
    THEN <<"repositories", snapshot.repository_id>>
    ELSE <<"folders", snapshot.folder_id>>

Without(s, table, gone) ==
    [s EXCEPT !.db[table] = @ \ gone, !.tx[table] = @ \ gone]

\* session.delete(snapshot); session.commit().  Snapshot.files carries
\* cascade="all, delete-orphan": the file rows go with it.
delete_snapshot(s, id) ==
    LET q == flush(s)
        snaps == {x \in Rows(q, "snapshots") : x.id = id}
        files == {f \in Rows(q, "files") : f.snapshot_id = id}
    IN  [s |-> commit(Without(Without(q, "files", files), "snapshots", snaps)),
         outcome |-> "ok"]

\* Whether the relationship Repository.snapshots / Folder.snapshots cascades
\* a delete to the snapshots: it declares no cascade.
RootCascadesDelete == FALSE

\* session.delete(root); session.commit().  Without a delete cascade the unit
\* of work sets the children's foreign key to NULL; the column is NOT NULL, the
\* flush raises IntegrityError and the session's transaction is rolled back.
delete_root(s, table, id) ==
    LET q == flush(s)
        root == {r \in Rows(q, table) : r.id = id}
        snaps == {x \in Rows(q, "snapshots") : Owner(x) = <<table, id>>}
        files == {f \in Rows(q, "files") :
                    \E x \in snaps : f.snapshot_id = x.id}
    IN  IF snaps = {}
        THEN [s |-> commit(Without(q, table, root)), outcome |-> "ok"]
        ELSE IF RootCascadesDelete
        THEN [s |-> commit(Without(Without(Without(q, "files", files),
                                   "snapshots", snaps), table, root)),
              outcome |-> "ok"]
        ELSE [s |-> rollback(s), outcome |-> "IntegrityError"]

\* ------------------------------------------------- the scanning factory
\* fs_factory.py.  A file or directory name is the sequence of its
\* characters, a path the sequence of its segments below the factory's
\* resolved root (<<>> is the root itself).

\* The characters of the names used here, in code-point order.
Alphabet ==
    << "*", ".", "?",
       "a", "b", "c", "d", "e", "g", "h", "i", "l", "m", "n", "o", "p", "r",
       "s", "t", "u", "v", "w", "x", "y" >>

Ord(c) == CHOOSE i \in 1..Len(Alphabet) : Alphabet[i] = c

\* str.__lt__: lexicographic by code point.
RECURSIVE StrLess(_, _)
StrLess(a, b) ==
    IF b = <<>> THEN FALSE
    ELSE IF a = <<>> THEN TRUE
    ELSE IF Head(a) = Head(b) THEN StrLess(Tail(a), Tail(b))
    ELSE Ord(Head(a)) < Ord(Head(b))

\* Path.__lt__: the parts compared as a list of strings.
RECURSIVE PathLess(_, _)
PathLess(p, q) ==
    IF q = <<>> THEN FALSE
    ELSE IF p = <<>> THEN TRUE
    ELSE IF Head(p) = Head(q) THEN PathLess(Tail(p), Tail(q))
    ELSE StrLess(Head(p), Head(q))

RECURSIVE insort(_, _)
insort(p, s) ==
    IF s = <<>> THEN <<p>>
    ELSE IF p = Head(s) \/ PathLess(p, Head(s)) THEN <<p>> \o s
    ELSE <<Head(s)>> \o insort(p, Tail(s))

\* sorted(paths): duplicates are kept.
RECURSIVE sorted(_)
sorted(paths) ==
    IF paths = <<>> THEN <<>> ELSE insort(Head(paths), sorted(Tail(paths)))

\* The names of the set in descending string order.
RECURSIVE sorted_names_descending(_)
sorted_names_descending(S) ==
    IF S = {} THEN <<>>
    ELSE LET greatest == CHOOSE n \in S : \A m \in S \ {n} : StrLess(m, n)
         IN  <<greatest>> \o sorted_names_descending(S \ {greatest})

\* sorted(child_dirs_str): a set of names in string order.
RECURSIVE sorted_names(_)
sorted_names(S) ==
    IF S = {} THEN <<>>
    ELSE LET least == CHOOSE n \in S : \A m \in S \ {n} : StrLess(n, m)
         IN  <<least>> \o sorted_names(S \ {least})

\* A set of paths as a list; the order os.walk yields them in is lost in
\* build's sort, so the sorted one stands for it.
RECURSIVE listing(_)
listing(S) ==
    IF S = {} THEN <<>>
    ELSE LET least == CHOOSE p \in S : \A q \in S \ {p} : PathLess(p, q)
         IN  <<least>> \o listing(S \ {least})

Range(s) == {s[i] : i \in 1..Len(s)}

Parent(p) == SubSeq(p, 1, Len(p) - 1)

\* p is current_path or lies below it.
IsUnder(p, current_path) ==
    /\ Len(p) >= Len(current_path)
    /\ SubSeq(p, 1, Len(current_path)) = current_path

\* str.rfind(ch) + 1: the last position of ch, 0 when there is none.
rfind(name, ch) ==
    LET at == {i \in 1..Len(name) : name[i] = ch}
    IN  IF at = {} THEN 0 ELSE Max(at)

\* PurePath.suffix: the name from its last dot on, unless that dot leads or
\* ends the name.
suffix(name) ==
    LET i == rfind(name, ".")
    IN  IF 1 < i /\ i < Len(name) THEN SubSeq(name, i, Len(name)) ELSE <<>>

\* fnmatch.fnmatch on POSIX (no case folding), patterns of literals, * and ?.
RECURSIVE fnmatch(_, _)
fnmatch(name, pat) ==
    IF pat = <<>> THEN name = <<>>
    ELSE IF Head(pat) = "*"
    THEN \/ fnmatch(name, Tail(pat))
         \/ name # <<>> /\ fnmatch(Tail(name), pat)
    ELSE /\ name # <<>>
         /\ Head(pat) = "?" \/ Head(pat) = Head(name)
         /\ fnmatch(Tail(name), Tail(pat))

\* Optional[...] attributes of the factory: unset, or holding a value.
Unset == <<>>
Holding(v) == <<v>>

\* FileSystemFactory(root, git_mode, ignore_parts, ignore_patterns); root is
\* the name of the resolved root directory.
FileSystemFactory(root, git_mode, ignore_parts, ignore_patterns) ==
    [root |-> root, git_mode |-> git_mode,
     ignore_parts |-> ignore_parts, ignore_patterns |-> ignore_patterns,
     _gathered_paths |-> Unset, _model |-> Unset]

\* Path.name of a path under self.root.
NameOf(self, path) == IF path = <<>> THEN self.root ELSE path[Len(path)]

_should_ignore(self, path) ==
    \/ \E i \in 1..Len(path) : path[i] \in self.ignore_parts
    \/ \E pattern \in self.ignore_patterns :
          \/ suffix(NameOf(self, path)) = pattern
          \/ fnmatch(NameOf(self, path), pattern)

\* os.walk visits every directory (dirnames is never pruned); an ignored
\* directory contributes none of its own files.
_scan_standard(self, fsys) ==
    listing({p \in fsys.files : ~_should_ignore(self, Parent(p))})

Exists(fsys, p) == p \in fsys.files \/ p \in fsys.dirs

dot_git == <<".", "g", "i", "t">>

\* _scan_git without the test that a listed path still exists.
_scan_git_unvalidated(self, fsys) ==
    IF ~Exists(fsys, <<dot_git>>)
    THEN [paths |-> _scan_standard(self, fsys), error |-> "none"]
    ELSE IF fsys.git = "not installed"
    THEN [paths |-> <<>>, error |-> "FileNotFoundError"]
    ELSE IF fsys.git = "exit 1"
    THEN [paths |-> <<>>, error |-> "none"]
    ELSE [paths |-> fsys.ls_files, error |-> "none"]

\* git ls-files: fsys.git is how the subprocess ends, fsys.ls_files its lines.
_scan_git(self, fsys) ==
    IF ~Exists(fsys, <<dot_git>>)
    THEN [paths |-> _scan_standard(self, fsys), error |-> "none"]
    ELSE IF fsys.git = "not installed"
    THEN [paths |-> <<>>, error |-> "FileNotFoundError"]
    ELSE IF fsys.git = "exit 1"
    THEN [paths |-> <<>>, error |-> "none"]
    ELSE LET StillThere(p) == Exists(fsys, p)
         IN  [paths |-> SelectSeq(fsys.ls_files, StillThere), error |-> "none"]

_scan(self, fsys) ==
    IF self.git_mode
    THEN _scan_git(self, fsys)
    ELSE [paths |-> _scan_standard(self, fsys), error |-> "none"]

_filter(self, paths) ==
    LET Kept(p) == ~_should_ignore(self, p)
    IN  SelectSeq(paths, Kept)

\* The stat model class get_file_stat_model picks by platform.system().
StatModelOf(system) ==
    CASE system = "Darwin" -> "MacOSFileStatModel"
      [] system = "Windows" -> "WindowsFileStatModel"
      [] system = "Linux" -> "LinuxFileStatModel"
      [] OTHER -> "BaseFileStatModel"

\* The fields a stat model class declares beyond BaseFileStatModel's (of
\* which st_size and st_mtime stand for all), with the value validation gives
\* each: os.stat_result has st_birthtime and st_file_attributes on their
\* hosts, and has no st_atim anywhere, which leaves the default None.
StatExtras(cls) ==
    CASE cls = "MacOSFileStatModel" -> <<"st_birthtime">>
      [] cls = "WindowsFileStatModel" -> <<"st_file_attributes">>
      [] cls = "LinuxFileStatModel" -> <<"st_atim">>
      [] OTHER -> <<>>

StatBaseFields == <<"st_size", "st_mtime">>

\* get_file_stat_model(path): the values are those of the path's stat.
get_file_stat_model(fsys, path) ==
    LET cls == StatModelOf(fsys.system)
        fields == StatBaseFields \o StatExtras(cls)
    IN  [cls |-> cls,
         fields |-> [i \in 1..Len(fields) |->
                        <<fields[i],
                          IF fields[i] = "st_atim" THEN None
                          ELSE <<"stat", path, fields[i]>> >>]]

\* BaseFileModel(sha256, stat_json, path_json) of one file.
BaseFileModel(fsys, f_path) ==
    [cls |-> "BaseFileModel",
     sha256 |-> <<"sha256", f_path>>,
     stat_json |-> get_file_stat_model(fsys, f_path),
     path_json |-> f_path]

\* One pass of the loop over direct_files: the file's entry, or nothing when
\* one of its probes raises (the exception is caught and printed).
process_file_unguarded(fsys, f_path) == <<BaseFileModel(fsys, f_path)>>

process_file(fsys, f_path) ==
    IF f_path \in fsys.unreadable THEN <<>>
    ELSE <<BaseFileModel(fsys, f_path)>>

RECURSIVE process_files(_, _)
process_files(fsys, direct_files) ==
    IF direct_files = <<>> THEN <<>>
    ELSE process_file(fsys, Head(direct_files))
            \o process_files(fsys, Tail(direct_files))

\* The result is the BaseDirectoryModel, or the exception that left the call:
\* a file whose probes fail is skipped, a directory whose stat fails raises.
RECURSIVE _build_directory_recursive(_, _, _)
_build_directory_recursive(fsys, current_path, all_paths) ==
    LET Direct(p) == p # <<>> /\ Parent(p) = current_path
        direct_files == SelectSeq(all_paths, Direct)
        child_dirs_str ==
            {p[Len(current_path) + 1] :
                p \in {q \in Range(all_paths) :
                          /\ IsUnder(q, current_path)
                          /\ Len(q) > Len(current_path) + 1}}
        current_files == process_files(fsys, direct_files)
        d_names == sorted_names(child_dirs_str)
        current_subdirs ==
            [i \in 1..Len(d_names) |->
                _build_directory_recursive(
                    fsys, current_path \o <<d_names[i]>>, all_paths)]
    IN  IF \E i \in 1..Len(d_names) : current_subdirs[i].cls = "OSError"
        THEN [cls |-> "OSError"]
        ELSE IF current_path \in fsys.unstatable
        THEN [cls |-> "OSError"]
        ELSE [cls |-> "BaseDirectoryModel",
              path_json |-> current_path,
              stat_json |-> get_file_stat_model(fsys, current_path),
              files |-> current_files,
              directories |-> current_subdirs]

\* A call's account of what it touched: whether it scanned, whether it ran
\* the version-control query, whether it probed the filesystem.
Untouched == [scanned |-> FALSE, queried |-> FALSE, probed |-> FALSE]

\* build past its cache test: scan, filter, sort, construct.
build_steps(self, fsys) ==
    LET scan == _scan(self, fsys)
        gathered == sorted(_filter(self, scan.paths))
        model == _build_directory_recursive(fsys, <<>>, gathered)
        listed == [self EXCEPT !._gathered_paths = Holding(gathered)]
        touched == [scanned |-> TRUE,
                    queried |-> self.git_mode /\ Exists(fsys, <<dot_git>>),
                    probed |-> scan.error = "none"]
    IN  IF scan.error # "none"
        THEN [self |-> self, outcome |-> scan.error, value |-> Unset,
              touched |-> touched]
        ELSE IF model.cls = "OSError"
        THEN [self |-> listed, outcome |-> "OSError", value |-> Unset,
              touched |-> touched]
        ELSE [self |-> [listed EXCEPT !._model = Holding(model)],
              outcome |-> "ok", value |-> Holding(model), touched |-> touched]

\* build with the cache test left out.
build_uncached(self, fsys) == build_steps(self, fsys)

build(self, fsys) ==
    IF self._model # Unset
    THEN [self |-> self, outcome |-> "ok", value |-> self._model,
          touched |-> Untouched]
    ELSE build_steps(self, fsys)

get_paths_list(self, fsys) ==
    IF self._gathered_paths = Unset
    THEN LET b == build(self, fsys)
         IN  [self |-> b.self, outcome |-> b.outcome,
              value |-> IF b.outcome = "ok" THEN b.self._gathered_paths
                        ELSE Unset,
              touched |-> b.touched]
    ELSE [self |-> self, outcome |-> "ok", value |-> self._gathered_paths,
          touched |-> Untouched]

\* A JSON object is the sequence of its <<key, value>> members in the order
\* they are written, a JSON array a sequence of values.
\* json_encoders (BaseFileStatModel: v.model_dump()): a stat model is written
\* with every field of the class of the instance.
stat_dump(stat) == stat.fields

file_dump(f) ==
    << <<"sha256", f.sha256>>,
       <<"stat_json", stat_dump(f.stat_json)>>,
       <<"path_json", f.path_json>> >>

\* BaseDirectoryModel.model_dump_json: the fields in declaration order.
RECURSIVE model_dump_json(_)
model_dump_json(d) ==
    << <<"path_json", d.path_json>>,
       <<"stat_json", stat_dump(d.stat_json)>>,
       <<"files", [i \in 1..Len(d.files) |-> file_dump(d.files[i])]>>,
       <<"directories",
         [i \in 1..Len(d.directories) |-> model_dump_json(d.directories[i])]>> >>

to_json(self, fsys) ==
    IF self._model = Unset
    THEN LET b == build(self, fsys)
         IN  [self |-> b.self, outcome |-> b.outcome,
              value |-> IF b.outcome = "ok"
                        THEN Holding(model_dump_json(b.self._model[1]))
                        ELSE Unset,
              touched |-> b.touched]
    ELSE [self |-> self, outcome |-> "ok",
          value |-> Holding(model_dump_json(self._model[1])),
          touched |-> Untouched]

\* The connectors of the tree text, in ASCII for the box-drawing characters:
\* the tee and (for the last entry of a level) the corner before an entry,
\* the bar and (below a last entry) the blank before the entries below it.
Tee == "|-- "
Corner == "+-- "
Bar_as_blank == "    "
Bar == "|   "
Blank == "    "

RECURSIVE insort_name(_, _)
insort_name(n, s) ==
    IF s = <<>> THEN <<n>>
    ELSE IF n = Head(s) \/ StrLess(n, Head(s)) THEN <<n>> \o s
    ELSE <<Head(s)>> \o insort_name(n, Tail(s))

\* files.sort(): a list of names, duplicates kept.
RECURSIVE sort_names(_)
sort_names(names) ==
    IF names = <<>> THEN <<>>
    ELSE insort_name(Head(names), sort_names(Tail(names)))

\* render_tree over the node that holds rel_paths (tree_dict is keyed by the
\* first segment): the lines of the items from the i-th on, directories
\* first, each directory followed by the lines of its own node.  A line is
\* the sequence of its pieces.
RECURSIVE render_tree(_, _, _)
render_tree(rel_paths, prefix, i) ==
    LET Nested(p) == Len(p) > 1
        Leaf(p) == Len(p) = 1
        dirs == sorted_names({p[1] : p \in Range(SelectSeq(rel_paths, Nested))})
        plain == SelectSeq(rel_paths, Leaf)
        files == sort_names([j \in 1..Len(plain) |-> plain[j][1]])
        n == Len(dirs) + Len(files)
        is_last_item == i = n
        symbol == IF is_last_item THEN Corner ELSE Tee
        next_prefix == prefix \o <<IF is_last_item THEN Blank ELSE Bar>>
        Within(p) == Len(p) > 1 /\ p[1] = dirs[i]
        content == SelectSeq(rel_paths, Within)
    IN  IF i > n THEN <<>>
        ELSE IF i <= Len(dirs)
        THEN <<prefix \o <<symbol>> \o dirs[i] \o <<"/">> >>
                \o render_tree([j \in 1..Len(content) |-> Tail(content[j])],
                               next_prefix, 1)
                \o render_tree(rel_paths, prefix, i + 1)
        ELSE <<prefix \o <<symbol>> \o files[i - Len(dirs)]>>
                \o render_tree(rel_paths, prefix, i + 1)

\* The text as the sequence of its lines; the empty text has none.
_generate_tree_string(self, rel_paths) ==
    IF rel_paths = <<>> THEN <<>>
    ELSE <<self.root \o <<"/">> >> \o render_tree(rel_paths, <<>>, 1)

to_tree(self, fsys) ==
    IF self._gathered_paths = Unset
    THEN LET b == build(self, fsys)
         IN  [self |-> b.self, outcome |-> b.outcome,
              value |-> IF b.outcome = "ok"
                        THEN Holding(_generate_tree_string(
                                        b.self, b.self._gathered_paths[1]))
                        ELSE Unset,
              touched |-> b.touched]
    ELSE [self |-> self, outcome |-> "ok",
          value |-> Holding(_generate_tree_string(
                                self, self._gathered_paths[1])),
          touched |-> Untouched]

\* ------------------------------------------- sample roots and configurations

a_txt == <<"a", ".", "t", "x", "t">>
b_pyc == <<"b", ".", "p", "y", "c">>
src == <<"s", "r", "c">>
m_py == <<"m", ".", "p", "y">>
dot_venv == <<".", "v", "e", "n", "v">>
l_py == <<"l", ".", "p", "y">>
d_log == <<"d", ".", "l", "o", "g">>
sub == <<"s">>

\* The files a sample root may hold.
SampleFiles ==
    { <<a_txt>>, <<b_pyc>>, <<src, m_py>>, <<dot_venv, l_py>>,
      <<d_log, a_txt>>, <<d_log, sub, m_py>> }

\* The workspace of the tests: a root file, an ignored one, src with a
\* nested directory, and an ignored directory.
h_py == <<"h", ".", "p", "y">>
utils == <<"u">>

Workspace ==
    { <<a_txt>>, <<b_pyc>>, <<src, m_py>>, <<src, utils, h_py>>,
      <<dot_venv, l_py>> }

\* The name of the root directory.
RootDirNames == { <<"w">>, <<"w", ".", "l", "o", "g">> }

\* ignore_parts / ignore_patterns: an excerpt of the defaults, and a custom
\* pair with a glob.
IgnoreConfigs ==
    { [ignore_parts |-> {dot_venv},
       ignore_patterns |-> {<<".", "p", "y", "c">>, <<".", "l", "o", "g">>}],
      [ignore_parts |-> {sub},
       ignore_patterns |-> {<<"?", ".", "t", "*">>}] }

\* What git ls-files prints when it succeeds; an unmerged path is printed
\* once for each of its stages.
LsFilesOutputs ==
    { << <<a_txt>>, <<src, m_py>> >>,
      << <<a_txt>>, <<src, m_py>>, <<src, m_py>> >>,
      << <<a_txt>>, <<b_pyc>>, <<dot_venv, l_py>>, <<d_log, a_txt>>,
         <<d_log, sub, m_py>> >> }

\* The version-control side of a root: no .git at all, or a .git directory
\* and the way the query ends.
GitStates ==
    {[present |-> FALSE, git |-> "none", ls_files |-> <<>>]}
        \cup {[present |-> TRUE, git |-> g, ls_files |-> <<>>] :
                g \in {"not installed", "exit 1"}}
        \cup {[present |-> TRUE, git |-> "ok", ls_files |-> l] :
                l \in LsFilesOutputs}

\* The directories that hold the files, with the root.
RECURSIVE Ancestors(_)
Ancestors(p) == IF p = <<>> THEN {<<>>} ELSE {Parent(p)} \cup Ancestors(Parent(p))

DirsOf(files) == {<<>>} \cup UNION {Ancestors(p) : p \in files}

\* The host and the state of single paths: the files that cannot be read,
\* the directories whose stat fails once the scan has listed them, the
\* directories that hold nothing.
Plain ==
    [system |-> "Linux", unreadable |-> {}, unstatable |-> {},
     empty_dirs |-> {}]

Conditions ==
    { Plain,
      [Plain EXCEPT !.system = "Darwin"],
      [Plain EXCEPT !.unreadable = {<<src, m_py>>}],
      [Plain EXCEPT !.unstatable = {<<src>>}],
      [Plain EXCEPT !.empty_dirs = {<<sub>>}] }

FileSystemOf(files, g, c) ==
    [files |-> files,
     dirs |-> DirsOf(files) \cup c.empty_dirs
                \cup (IF g.present THEN {<<dot_git>>} ELSE {}),
     git |-> g.git, ls_files |-> g.ls_files,
     system |-> c.system,
     unreadable |-> c.unreadable, unstatable |-> c.unstatable]

\* The callers of ingest_scan that run at the same time, each on a session of
\* its own over the one database.
SessionIds == {"s1", "s2"}

\* A session no ingest_scan is running on: where the call stands (pc), the
\* session's open transaction and pending objects, the call's root_path and
\* dir_model, the identity it selected (table, name), the row it looked up
\* or created (repo / folder), its snapshot, and what its last call
\* returned or raised.
NoCall ==
    [pc |-> "idle", tx |-> EmptyTables, new |-> <<>>,
     root_path |-> <<>>, dir_model |-> PyDirectory("root", <<>>, <<>>),
     table |-> "none", name |-> None, row |-> Unset, created |-> FALSE,
     snapshot |-> Unbound, outcome |-> "none"]

\* ---------------------------------------------------------------- actions

\* Every RootIdentity and Snapshot key of the session is within the bound.
IdsWithin(s) ==
    \A table \in {"repositories", "folders", "snapshots"} :
        \A r \in Rows(s, table) : r.id <= MaxRowId

\* The store's calls leave the factory alone.
SetSession(s) ==
    /\ db' = s.db /\ tx' = s.tx /\ new' = s.new
    /\ UNCHANGED <<fs, factory, ret, sessions>>

IngestScan(root_path, dir_model, repo_name, folder_name) ==
    /\ LET r == ingest_scan(Session, root_path, dir_model, repo_name, folder_name)
       IN  /\ IdsWithin(r.s)
           /\ SetSession(r.s)
           /\ result' = [op |-> "ingest_scan", outcome |-> r.outcome,
                         snapshot |-> r.snapshot,
                         args |-> <<root_path, repo_name, folder_name>>]

\* A later query on the same session, e.g. session.execute(select(...)).
Query ==
    /\ SetSession(flush(Session))
    /\ result' = [op |-> "query", outcome |-> "ok", snapshot |-> 0,
                  args |-> <<>>]

DeleteSnapshot(id) ==
    /\ \E x \in Rows(Session, "snapshots") : x.id = id
    /\ LET r == delete_snapshot(Session, id)
       IN  /\ SetSession(r.s)
           /\ result' = [op |-> "delete_snapshot", outcome |-> r.outcome,
                         snapshot |-> 0, args |-> <<"snapshots", id>>]

DeleteRoot(table, id) ==
    /\ \E x \in Rows(Session, table) : x.id = id
    /\ LET r == delete_root(Session, table, id)
       IN  /\ SetSession(r.s)
           /\ result' = [op |-> "delete_root", outcome |-> r.outcome,
                         snapshot |-> 0, args |-> <<table, id>>]

Init ==
    /\ db = EmptyTables
    /\ tx = EmptyTables
    /\ new = <<>>
    /\ result = [op |-> "none", outcome |-> "ok", snapshot |-> 0, args |-> <<>>]
    /\ fs = FileSystemOf({}, [present |-> FALSE, git |-> "none",
                              ls_files |-> <<>>], Plain)
    /\ factory = FileSystemFactory(<<"w">>, FALSE, {}, {})
    /\ ret = [op |-> "none", outcome |-> "ok", value |-> Unset,
              touched |-> Untouched]
    /\ sessions = [s \in SessionIds |-> NoCall]

Ingest ==
    \E root_path \in RootPaths, dir_model \in SampleTrees,
       repo_name \in RepoNames, folder_name \in FolderNames :
        IngestScan(root_path, dir_model, repo_name, folder_name)

DeleteSnapshotAny ==
    \E x \in Rows(Session, "snapshots") : DeleteSnapshot(x.id)

DeleteRootAny ==
    \E table \in {"repositories", "folders"} :
        \E x \in Rows(Session, table) : DeleteRoot(table, x.id)

Next == Ingest

\* The store with the caller's deletions.
NextDelete == Ingest \/ Query \/ DeleteSnapshotAny \/ DeleteRootAny

SpecDelete == Init /\ [][NextDelete]_vars


Spec == Init /\ [][Next]_vars

\* ------------------------------------------ two sessions over one database

\* What the statements of session s read: the committed rows and the rows of
\* its own transaction, never those of the other session's open transaction.
View(s) == [db |-> db, tx |-> sessions[s].tx, new |-> sessions[s].new]

\* The database has one writer at a time: a transaction that has written
\* holds the write lock until it commits or rolls back, and the INSERT of
\* another session waits for it.
Locked(s) ==
    \E o \in SessionIds \ {s} : sessions[o].tx # EmptyTables

\* The call on the session is over: its arguments and locals are gone, its
\* caller keeps what it selected and the snapshot it was given.
Returns(me) ==
    [NoCall EXCEPT !.table = me.table, !.name = me.name,
                   !.created = me.created, !.snapshot = me.snapshot]

\* The trees the concurrent callers pass: an empty scan and the fixture of
\* test_db_ingest.py.
RaceTrees ==
    { PyDirectory("root", <<>>, <<>>),
      PyDirectory("root", <<txt_file>>,
                  <<PyDirectory("subdir", <<img_file, bin_file>>, <<>>)>>) }

\* The table of the branch that lines 37 and 48 take.
SelectedTable(repo_name, folder_name) ==
    IF Truthy(repo_name) THEN "repositories"
    ELSE IF Truthy(folder_name) THEN "folders" ELSE "none"

\* Lines 33-39 / 49-50: the checks of the arguments and the lookup
\* session.query(T).filter_by(name=name).first().
Find(s, root_path, dir_model, repo_name, folder_name) ==
    /\ sessions[s].pc = "idle"
    /\ LET name == DefaultFolderName(root_path, repo_name, folder_name)
           table == SelectedTable(repo_name, name)
           q == flush(View(s))
           found == IF table = "none" THEN {}
                    ELSE {r \in Rows(q, table) :
                            r.name = IF table = "repositories"
                                     THEN repo_name ELSE name}
           call == [NoCall EXCEPT !.tx = q.tx, !.new = q.new,
                                  !.root_path = root_path,
                                  !.dir_model = dir_model,
                                  !.table = table,
                                  !.name = IF table = "repositories"
                                           THEN repo_name ELSE name]
       IN  sessions' = [sessions EXCEPT ![s] =
             IF BothSelected(repo_name, folder_name)
             THEN [NoCall EXCEPT !.outcome = "ValueError"]
             ELSE IF table = "none"
             THEN [call EXCEPT !.pc = "unbound"]
             ELSE IF found = {}
             THEN [call EXCEPT !.pc = "missing"]
             ELSE [call EXCEPT !.pc = "found",
                     !.row = Holding(CHOOSE r \in found :
                                        \A o \in found : r.id <= o.id)]]
    /\ UNCHANGED <<db, tx, new, result, fs, factory, ret>>

\* Lines 40-42 / 51-53: T(name=name, path=root_path); session.add;
\* session.flush.  An IntegrityError leaves ingest_scan, which catches nothing.
Create(s) ==
    /\ sessions[s].pc = "missing"
    /\ ~Locked(s)
    /\ LET me == sessions[s]
           r == insert_root(View(s), me.table,
                    [id |-> NextId(View(s), me.table), name |-> me.name,
                     path |-> me.root_path])
       IN  /\ IdsWithin(r.s)
           /\ sessions' = [sessions EXCEPT ![s] =
                IF r.error # "none"
                THEN [Returns(me) EXCEPT !.pc = "raised",
                                         !.outcome = r.error,
                                         !.tx = r.s.tx, !.new = r.s.new]
                ELSE [me EXCEPT !.pc = "found", !.row = Holding(r.row),
                                !.created = TRUE,
                                !.tx = r.s.tx, !.new = r.s.new]]
    /\ UNCHANGED <<db, tx, new, result, fs, factory, ret>>

\* Lines 45-47 / 56-58: the snapshot row of the identity; session.add;
\* session.flush.
AddSnapshot(s) ==
    /\ sessions[s].pc = "found"
    /\ ~Locked(s)
    /\ LET me == sessions[s]
           a == add_snapshot(View(s),
                    IF me.table = "repositories"
                    THEN RepoSnapshot(View(s), me.row[1])
                    ELSE FolderSnapshot(View(s), me.row[1]))
       IN  /\ IdsWithin(a.s)
           /\ sessions' = [sessions EXCEPT ![s] =
                [me EXCEPT !.pc = "snapshotted", !.snapshot = a.snapshot,
                           !.tx = a.s.tx, !.new = a.s.new]]
    /\ UNCHANGED <<db, tx, new, result, fs, factory, ret>>

\* Lines 60-99: _recurse_save(dir_model); session.commit(); return snapshot.
Save(s) ==
    /\ sessions[s].pc \in {"snapshotted", "unbound"}
    /\ ~Locked(s)
    /\ LET me == sessions[s]
           saved == _recurse_save(me.dir_model, me.snapshot,
                                  [new |-> me.new, error |-> "none"])
           c == commit([View(s) EXCEPT !.new = saved.new])
       IN  IF saved.error # "none"
           THEN /\ sessions' = [sessions EXCEPT ![s] =
                     [Returns(me) EXCEPT !.pc = "raised",
                                         !.outcome = saved.error,
                                         !.tx = me.tx, !.new = saved.new]]
                /\ db' = db
           ELSE /\ sessions' = [sessions EXCEPT ![s] =
                     [Returns(me) EXCEPT !.outcome =
                                            IF me.snapshot = Unbound
                                            THEN "UnboundLocalError"
                                            ELSE "ok"]]
                /\ db' = c.db
    /\ UNCHANGED <<tx, new, result, fs, factory, ret>>

\* The caller of a call that raised gives its session up: the transaction is
\* rolled back.
Close(s) ==
    /\ sessions[s].pc = "raised"
    /\ LET r == rollback(View(s))
       IN  sessions' = [sessions EXCEPT ![s].pc = "idle",
                                        ![s].tx = r.tx, ![s].new = r.new]
    /\ UNCHANGED <<db, tx, new, result, fs, factory, ret>>

FindAny ==
    \E s \in SessionIds, root_path \in RootPaths, dir_model \in RaceTrees,
       repo_name \in RepoNames, folder_name \in FolderNames :
        Find(s, root_path, dir_model, repo_name, folder_name)

CreateAny == \E s \in SessionIds : Create(s)

AddSnapshotAny == \E s \in SessionIds : AddSnapshot(s)

SaveAny == \E s \in SessionIds : Save(s)

CloseAny == \E s \in SessionIds : Close(s)

NextRace == FindAny \/ CreateAny \/ AddSnapshotAny \/ SaveAny \/ CloseAny

SpecRace == Init /\ [][NextRace]_vars

\* ---------------------------------------------------- the factory's calls

Returned(op, r) ==
    [op |-> op, outcome |-> r.outcome, value |-> r.value, touched |-> r.touched]

Build ==
    /\ LET r == build(factory, fs)
       IN  factory' = r.self /\ ret' = Returned("build", r)
    /\ UNCHANGED <<fs, db, tx, new, result, sessions>>

GetPathsList ==
    /\ LET r == get_paths_list(factory, fs)
       IN  factory' = r.self /\ ret' = Returned("get_paths_list", r)
    /\ UNCHANGED <<fs, db, tx, new, result, sessions>>

ToJson ==
    /\ LET r == to_json(factory, fs)
       IN  factory' = r.self /\ ret' = Returned("to_json", r)
    /\ UNCHANGED <<fs, db, tx, new, result, sessions>>

ToTree ==
    /\ LET r == to_tree(factory, fs)
       IN  factory' = r.self /\ ret' = Returned("to_tree", r)
    /\ UNCHANGED <<fs, db, tx, new, result, sessions>>

\* The root changes under a factory that has scanned it: a file appears or
\* disappears (with the directory that held only it).
ChangeFile(p) ==
    /\ factory._gathered_paths # Unset
    /\ LET files == IF p \in fs.files THEN fs.files \ {p}
                    ELSE fs.files \cup {p}
       IN  fs' = [fs EXCEPT !.files = files,
                            !.dirs = (fs.dirs \ DirsOf(fs.files))
                                        \cup DirsOf(files)]
    /\ UNCHANGED <<factory, ret, db, tx, new, result, sessions>>

Change == ChangeFile(<<src, m_py>>)

\* A root directory and a factory just constructed on it.  Without git_mode
\* the version-control side is never looked at; the conditions are taken
\* under the plain root name.
InitScan ==
    /\ db = EmptyTables
    /\ tx = EmptyTables
    /\ new = <<>>
    /\ result = [op |-> "none", outcome |-> "ok", snapshot |-> 0, args |-> <<>>]
    /\ \E files \in (SUBSET SampleFiles) \cup {Workspace},
          g \in GitStates, c \in Conditions,
          root \in RootDirNames, git_mode \in BOOLEAN, i \in IgnoreConfigs :
          /\ ~git_mode => ~g.present
          /\ c # Plain => root = <<"w">>
          /\ fs = FileSystemOf(files, g, c)
          /\ factory = FileSystemFactory(root, git_mode,
                                         i.ignore_parts, i.ignore_patterns)
    /\ ret = [op |-> "none", outcome |-> "ok", value |-> Unset,
              touched |-> Untouched]
    /\ sessions = [s \in SessionIds |-> NoCall]

NextScan == Build \/ GetPathsList \/ ToJson \/ ToTree \/ Change

SpecScan == InitScan /\ [][NextScan]_vars

\* ================================================================ claims

\* What a query on the session returns: it autoflushes first.
Visible(table) == Rows(flush(Session), table)

\* The FileRecords of one snapshot.
FileRecordsOf(id) == {f \in Visible("files") : f.snapshot_id = id}

\* The RootIdentity rows of either kind, tagged with their table.
RootRows ==
    {<<"repositories", r>> : r \in Visible("repositories")}
        \cup {<<"folders", r>> : r \in Visible("folders")}

IngestOk == result.op = "ingest_scan" /\ result.outcome = "ok"

\* C1: every successful ingest_scan adds exactly one Snapshot row, with an id
\* no earlier Snapshot row has, and leaves every Snapshot, FileRecord and
\* RootIdentity row that existed before the call as it was (same id, same
\* owner, same FileRecord set), also on a re-ingest under the same name.
C1_AppendOnly ==
    [][IngestOk' =>
        LET before == Visible("snapshots")
            after == Visible("snapshots")'
        IN  /\ Cardinality(after \ before) = 1
            /\ \A n \in after \ before :
                  /\ n.id = result'.snapshot
                  /\ n.id \notin {b.id : b \in before}
            /\ before \subseteq after
            /\ Visible("files") \subseteq Visible("files")'
            /\ \A b \in before : FileRecordsOf(b.id)' = FileRecordsOf(b.id)
            /\ Visible("repositories") \subseteq Visible("repositories")'
            /\ Visible("folders") \subseteq Visible("folders")'
      ]_vars

\* A successful re-ingest under a name that already has a snapshot with files.
C1_Witness ==
    /\ IngestOk
    /\ \E a, b \in Visible("snapshots") :
          /\ a.id < b.id /\ b.id = result.snapshot
          /\ Owner(a) = Owner(b)
          /\ Cardinality(FileRecordsOf(a.id)) = 4
          /\ Cardinality(FileRecordsOf(b.id)) = 4

\* The identity an ingest_scan call selects: <<table, name>>.
Selected(root_path, repo_name, folder_name) ==
    IF Truthy(repo_name) THEN <<"repositories", repo_name>>
    ELSE <<"folders", IF Truthy(folder_name) THEN folder_name
                      ELSE PathName(root_path)>>

NamedIn(s, table, name) == {r \in Rows(flush(s), table) : r.name = name}

\* C2 as stated: after a successful ingest under a kind and a name, the store
\* holds exactly one RootIdentity row with that name, counting both kinds.
C2_OneRowAcrossKinds ==
    IngestOk =>
        \A x \in Visible("snapshots") :
            x.id = result.snapshot =>
                \A owner \in {r \in Visible(Owner(x)[1]) : r.id = Owner(x)[2]} :
                    Cardinality({rr \in RootRows : rr[2].name = owner.name}) = 1

\* C2, amended: an ingest under a kind and a name never fails on the name's
\* uniqueness, and after a successful one the store holds exactly one
\* RootIdentity row of that kind with that name; that row is the one that was
\* there before the call or, if there was none, a new one whose path is the
\* call's root_path; the call's new Snapshot is linked to it; and the FileRecord
\* sets of two Snapshots are disjoint.
C2_FindOrCreate ==
    [][result'.op = "ingest_scan" =>
          LET sel == Selected(result'.args[1], result'.args[2], result'.args[3])
              was == NamedIn(Session, sel[1], sel[2])
              now == NamedIn(Session', sel[1], sel[2])
          IN  /\ result'.outcome # "IntegrityError"
              /\ result'.outcome = "ok" =>
                  /\ Cardinality(now) = 1
                  /\ was # {} => now = was
                  /\ was = {} => \A r \in now : r.path = result'.args[1]
                  /\ \A x \in Visible("snapshots")' :
                        x.id = result'.snapshot =>
                            /\ Owner(x)[1] = sel[1]
                            /\ \E r \in now : Owner(x)[2] = r.id
                  /\ \A a, b \in Visible("snapshots")' :
                        a # b => FileRecordsOf(a.id)' \cap FileRecordsOf(b.id)' = {}
      ]_vars

\* Two successful ingests of one name: one row, two snapshots, the row's path
\* that of the first call and not of the second.
C2_Witness ==
    /\ IngestOk
    /\ \E r \in Visible("repositories") :
          /\ Cardinality(Visible("repositories")) = 1
          /\ r.path = <<>>
          /\ Cardinality({x \in Visible("snapshots") :
                            Owner(x) = <<"repositories", r.id>>}) = 2
          /\ \E x \in Visible("snapshots") : FileRecordsOf(x.id) = {}
          /\ \E x \in Visible("snapshots") : FileRecordsOf(x.id) # {}

\* C3 as stated: an ingest_scan that fails leaves no Snapshot row and no
\* FileRecord row of its own visible to a later query on the session.
C3_FailedIngestInvisible ==
    [][(result'.op = "ingest_scan" /\ result'.outcome # "ok") =>
          /\ Visible("snapshots")' \subseteq Visible("snapshots")
          /\ Visible("files")' \subseteq Visible("files")
      ]_vars

\* The FileEntries of a tree, the files of a directory before the files of its
\* subdirectories, depth-first.
RECURSIVE Flattened(_)
RECURSIVE FlattenedAll(_)
FlattenedAll(directories) ==
    IF directories = <<>> THEN <<>>
    ELSE Flattened(Head(directories)) \o FlattenedAll(Tail(directories))

Flattened(directory) == directory.files \o FlattenedAll(directory.directories)

\* The rows of a set in the order of their ids.
InIdOrder(rows) ==
    [i \in 1..Cardinality(rows) |->
        CHOOSE r \in rows : Cardinality({o \in rows : o.id < r.id}) = i - 1]

\* The FileRecords of the snapshot the step's call returned, in id order.
NewRecords == InIdOrder(FileRecordsOf(result.snapshot))

\* The call of the step is an ingest_scan of this tree.
IngestStepOf(dir_model) ==
    /\ result'.op = "ingest_scan"
    /\ IngestScan(result'.args[1], dir_model, result'.args[2], result'.args[3])

\* The call selects exactly one identity, with a name that is not empty.
OneIdentity(args) ==
    /\ ~(Truthy(args[2]) /\ Truthy(args[3]))
    /\ Selected(args[1], args[2], args[3])[2] # ""

\* The discriminator the specification gives each FileEntry variant.
DiscriminatorOf(cls) ==
    CASE cls = "TextFileModel" -> "text"
      [] cls = "ImageFileModel" -> "image"
      [] OTHER -> "generic"

CommonFields == {"id", "snapshot_id", "type", "sha256", "path_json", "stat_json"}

PayloadFields(cls) ==
    CASE cls = "TextFileModel" -> {"content", "lines_json"}
      [] cls = "ImageFileModel" ->
            {"b64_data", "thumbnail_b64_data", "exif_data", "fmt"}
      [] OTHER -> {}

\* C4 as stated: every ingest of a tree under one identity succeeds and each
\* FileRecord it writes carries the discriminator of its FileEntry's variant
\* (text, image, generic) and only that variant's payload fields.
C4_Discriminators ==
    [][\A dir_model \in SampleTrees :
        (IngestStepOf(dir_model) /\ OneIdentity(result'.args)) =>
            /\ result'.outcome = "ok"
            /\ Len(NewRecords') = Len(Flattened(dir_model))
            /\ \A i \in 1..Len(NewRecords') :
                  /\ NewRecords'[i].type = DiscriminatorOf(Flattened(dir_model)[i].cls)
                  /\ DOMAIN NewRecords'[i] =
                        CommonFields \cup PayloadFields(Flattened(dir_model)[i].cls)
      ]_vars

\* What the specification has a FileRecord carry of its FileEntry.
Carries(record, entry) ==
    /\ record.sha256 = entry.sha256
    /\ record.path_json = entry.path_json
    /\ record.stat_json = entry.stat_json
    /\ entry.cls = "TextFileModel" =>
          /\ record.content = entry.content
          /\ record.lines_json.lines = entry.lines_json.lines
    /\ entry.cls = "ImageFileModel" =>
          /\ record.b64_data = entry.b64_data
          /\ record.thumbnail_b64_data = entry.thubnail_b64_data
          /\ record.fmt = entry.fmt
          /\ record.exif_data = entry.exif_data

\* C5 as stated: every ingest of a tree under one identity writes exactly one
\* FileRecord per FileEntry at every depth, in depth-first order, linked to
\* the new Snapshot only and carrying the entry's data unchanged.
C5_FaithfulFlattening ==
    [][\A dir_model \in SampleTrees :
        (IngestStepOf(dir_model) /\ OneIdentity(result'.args)) =>
            /\ result'.outcome = "ok"
            /\ Len(NewRecords') = Len(Flattened(dir_model))
            /\ \A i \in 1..Len(NewRecords') :
                  Carries(NewRecords'[i], Flattened(dir_model)[i])
            /\ \A f \in Visible("files")' \ Visible("files") :
                  f.snapshot_id = result'.snapshot
      ]_vars

\* A name was passed for the argument.
Given(name) == name # None /\ name # ""

\* C6: an ingest_scan call with both a repository name and a folder name
\* raises ValueError and leaves the database, the open transaction and the
\* session's pending objects exactly as they were (no query, hence no
\* autoflush, was issued).
C6_BothIsConfigError ==
    [][(result'.op = "ingest_scan" /\ Given(result'.args[2])
            /\ Given(result'.args[3])) =>
          /\ result'.outcome = "ValueError"
          /\ db' = db /\ tx' = tx /\ new' = new
      ]_vars

\* The call was refused while an earlier failed ingest's rows were still
\* pending in the session.
C6_Witness ==
    /\ result.op = "ingest_scan" /\ result.outcome = "ValueError"
    /\ Given(result.args[2]) /\ Given(result.args[3])
    /\ new # <<>>
    /\ tx.snapshots # {}

\* C7 as stated, for trees without an Image entry: an ingest_scan call with
\* neither name find-or-creates the Folder named by the final segment of
\* root_path (the empty one included), adds one Snapshot linked to it, returns
\* it, and creates no Repository row.
C7_DefaultsToFolder ==
    [][\A dir_model \in SampleTrees :
        (/\ IngestStepOf(dir_model)
         /\ result'.args[2] = None /\ result'.args[3] = None
         /\ \A i \in 1..Len(Flattened(dir_model)) :
               Flattened(dir_model)[i].cls # "ImageFileModel") =>
            /\ result'.outcome = "ok"
            /\ Visible("repositories")' = Visible("repositories")
            /\ \E f \in Visible("folders")' :
                  /\ f.name = PathName(result'.args[1])
                  /\ \E x \in Visible("snapshots")' \ Visible("snapshots") :
                        /\ x.id = result'.snapshot
                        /\ Owner(x) = <<"folders", f.id>>
      ]_vars

\* C8 as stated: no two RootIdentity rows share a name, whatever their kinds.
C8_UniqueAcrossKinds ==
    \A a, b \in RootRows : a # b => a[2].name # b[2].name

\* C8, amended: no two RootIdentity rows of one kind share a name, and no
\* ingest fails on the uniqueness constraint of the name.
C8_UniqueWithinKind ==
    /\ \A table \in {"repositories", "folders"} :
          \A a, b \in Visible(table) : a # b => a.name # b.name
    /\ result.op = "ingest_scan" => result.outcome # "IntegrityError"

\* Two Folder rows, the second made by the successful ingest just returned.
C8_Witness ==
    /\ IngestOk
    /\ \E f, g \in Visible("folders") :
          /\ f.id < g.id
          /\ \E x \in Visible("snapshots") :
                x.id = result.snapshot /\ Owner(x) = <<"folders", g.id>>

\* Every Snapshot's RootIdentity and every FileRecord's Snapshot exists.
NoDangling(s) ==
    /\ \A x \in Rows(flush(s), "snapshots") :
          \E r \in Rows(flush(s), Owner(x)[1]) : r.id = Owner(x)[2]
    /\ \A f \in Rows(flush(s), "files") :
          \E x \in Rows(flush(s), "snapshots") : x.id = f.snapshot_id

\* C9 as stated: deleting a RootIdentity deletes it, its Snapshots and their
\* FileRecords; deleting a Snapshot deletes it and its FileRecords; neither
\* leaves a row that refers to a missing one.
C9_CascadeDelete ==
    [][/\ result'.op = "delete_root" =>
            LET snaps == {x \in Visible("snapshots") : Owner(x) = result'.args}
            IN  /\ \A r \in Rows(flush(Session'), result'.args[1]) :
                      r.id # result'.args[2]
                /\ \A x \in snaps : x \notin Visible("snapshots")'
                /\ \A f \in Visible("files")' :
                      \A x \in snaps : f.snapshot_id # x.id
                /\ NoDangling(Session')
       /\ result'.op = "delete_snapshot" =>
            /\ \A x \in Visible("snapshots")' : x.id # result'.args[2]
            /\ \A f \in Visible("files")' : f.snapshot_id # result'.args[2]
            /\ NoDangling(Session')
      ]_vars

\* The step in which the factory scans: its path list is set.
Scans == factory._gathered_paths = Unset /\ factory'._gathered_paths # Unset

\* The files the scan is asked about: every file under the root, and with a
\* version-control query (git_mode on a root with .git) those it lists.
Asked(self, fsys) ==
    IF self.git_mode /\ Exists(fsys, <<dot_git>>)
    THEN {P \in fsys.files : fsys.git = "ok" /\ P \in Range(fsys.ls_files)}
    ELSE fsys.files

\* C10: for every file path P that exists under the root (and, in TRACKED
\* mode, is tracked), P is in the retained path list of build /
\* get_paths_list if and only if no relative segment of P is in ignore_parts
\* and neither P's final extension equals nor P's filename glob-matches any
\* ignore_pattern, in both scan strategies and also when a directory on the
\* way to P has a name that matches an ignore_pattern.
C10_RetainedIffNotIgnored ==
    [][Scans =>
        \A P \in Asked(factory, fs) :
            (P \in Range(factory'._gathered_paths[1]))
                <=> ~_should_ignore(factory, P)]_vars

\* What each call returns out of the factory's caches.
Cached(self, op) ==
    CASE op = "build" -> self._model
      [] op = "get_paths_list" -> self._gathered_paths
      [] op = "to_json" -> Holding(model_dump_json(self._model[1]))
      [] op = "to_tree" ->
            Holding(_generate_tree_string(self, self._gathered_paths[1]))

\* C11: once a build has returned its tree, every later call of build,
\* get_paths_list, to_json or to_tree, in any order and whatever has changed
\* under the root since, leaves the factory as it is, returns what the caches
\* of that first scan give (build the same tree), and runs neither the scan
\* nor the version-control query nor a filesystem probe.
C11_BuildCached ==
    [][(factory._model # Unset) =>
          /\ factory' = factory
          /\ fs' = fs =>
                /\ ret'.outcome = "ok"
                /\ ret'.value = Cached(factory, ret'.op)
                /\ ret'.touched = Untouched
      ]_vars

\* A path list returned from the cache after a file it names was removed.
C11_Witness ==
    /\ ret.op = "get_paths_list" /\ ret.outcome = "ok"
    /\ ret.touched = Untouched
    /\ factory._model # Unset
    /\ \E p \in Range(ret.value[1]) : p \notin fs.files

\* The paths of the FileEntries of a tree, at every depth.
RECURSIVE TreePaths(_)
TreePaths(d) ==
    {d.files[i].path_json : i \in 1..Len(d.files)}
        \cup UNION {TreePaths(d.directories[i]) : i \in 1..Len(d.directories)}

\* The factory is in git_mode on a root with .git and the query succeeds.
TrackedQuery(self, fsys) ==
    self.git_mode /\ Exists(fsys, <<dot_git>>) /\ fsys.git = "ok"

\* C12: in git_mode, with .git present and a successful query, the scan ends
\* without an error of its own and the path list holds exactly the paths the
\* query returned that still exist and that the filter retains (a file on
\* disk the query does not return is left out, a returned path that is gone
\* is dropped, a returned path the filter excludes is left out); the tree
\* built from it holds an entry for exactly those of them that can be read.
C12_TrackedExactly ==
    [][(Scans /\ TrackedQuery(factory, fs)) =>
          LET listed == Range(factory'._gathered_paths[1])
              returned == Range(fs.ls_files)
          IN  /\ \A p \in fs.files \ returned : p \notin listed
              /\ \A p \in returned :
                    p \in listed <=>
                        (Exists(fs, p) /\ ~_should_ignore(factory, p))
              /\ listed \subseteq returned
              /\ ret'.outcome \in {"ok", "OSError"}
              /\ ret'.outcome = "OSError" => fs.unstatable # {}
              /\ ret'.outcome = "ok" =>
                    TreePaths(factory'._model[1]) = listed \ fs.unreadable
      ]_vars

\* A tracked scan that kept a returned file and left out an untracked file on
\* disk, a returned path that is gone and a returned file the filter excludes.
C12_Witness ==
    /\ TrackedQuery(factory, fs)
    /\ ret.op = "build" /\ ret.outcome = "ok" /\ ret.touched.scanned
    /\ LET listed == Range(factory._gathered_paths[1])
           returned == Range(fs.ls_files)
       IN  /\ listed # {}
           /\ TreePaths(ret.value[1]) = listed
           /\ fs.files \ returned # {}
           /\ \E p \in returned : ~Exists(fs, p)
           /\ \E p \in returned : Exists(fs, p) /\ _should_ignore(factory, p)

\* What the same factory without git_mode makes of the same root.
FullWalk(self, fsys) == build_steps([self EXCEPT !.git_mode = FALSE], fsys)

\* C13 as stated: a scan in git_mode never fails because version control is
\* unavailable: it never raises out of the version-control query; on a root
\* without .git it yields the path list and the tree of the full walk; and
\* when the query exits non-zero it returns a tree whose root has no files
\* and no directories.
C13_TrackedNeverFails ==
    [][(factory.git_mode /\ fs' = fs /\ ret'.touched.scanned) =>
          /\ ret'.outcome # "FileNotFoundError"
          /\ ~Exists(fs, <<dot_git>>) =>
                /\ ret'.outcome = FullWalk(factory, fs).outcome
                /\ factory'._gathered_paths
                      = FullWalk(factory, fs).self._gathered_paths
                /\ factory'._model = FullWalk(factory, fs).self._model
          /\ (Exists(fs, <<dot_git>>) /\ fs.git = "exit 1") =>
                /\ ret'.outcome = "ok"
                /\ factory'._gathered_paths = Holding(<<>>)
                /\ factory'._model[1].files = <<>>
                /\ factory'._model[1].directories = <<>>
      ]_vars

\* Every FileEntry of the tree is in the node of its parent directory and
\* every node under the node of its own parent.
RECURSIVE WellPlaced(_)
WellPlaced(d) ==
    /\ \A i \in 1..Len(d.files) : Parent(d.files[i].path_json) = d.path_json
    /\ \A i \in 1..Len(d.directories) :
          /\ Parent(d.directories[i].path_json) = d.path_json
          /\ WellPlaced(d.directories[i])

\* C14: when the probes of retained files fail during a build (and no
\* directory's stat does), the build still returns a tree; the tree holds no
\* entry for those files and an entry for every other retained file, each in
\* the node of its directory.
C14_UnreadableSkipped ==
    [][(fs' = fs /\ ret'.touched.probed /\ fs.unstatable = {}) =>
          /\ ret'.outcome = "ok"
          /\ factory'._model # Unset
          /\ TreePaths(factory'._model[1])
                = Range(factory'._gathered_paths[1]) \ fs.unreadable
          /\ WellPlaced(factory'._model[1])
      ]_vars

\* A build that skipped a retained file it could not read and kept another.
C14_Witness ==
    /\ ret.op = "build" /\ ret.outcome = "ok" /\ ret.touched.probed
    /\ \E p \in Range(factory._gathered_paths[1]) :
          /\ p \in fs.unreadable
          /\ p \notin TreePaths(ret.value[1])
    /\ TreePaths(ret.value[1]) # {}

\* C15 as stated: no failing probe during tree construction, of a file or of
\* a directory, makes a call raise, and the factory never holds a path list
\* without a tree.
C15_NoProbeFatal ==
    /\ ret.outcome # "OSError"
    /\ factory._gathered_paths # Unset => factory._model # Unset

\* The directories that have a node in a tree, the root's included.
RECURSIVE TreeDirs(_)
TreeDirs(d) ==
    {d.path_json}
        \cup UNION {TreeDirs(d.directories[i]) : i \in 1..Len(d.directories)}

\* C16 as stated: every directory under the root that the filter does not
\* exclude has a node in the built tree, also when it holds no retained file
\* and no retained subdirectory.
C16_EmptyDirsKept ==
    [][(Scans /\ factory'._model # Unset) =>
          \A d \in fs.dirs :
              ~_should_ignore(factory, d) => d \in TreeDirs(factory'._model[1])
      ]_vars

\* The text of a to_tree call read back line by line.  The entry lines are
\* those after the root line; an entry's depth is the number of indentation
\* pieces before its connector.
EntryLines(text) == IF text = <<>> THEN <<>> ELSE Tail(text)

DepthOf(line) ==
    Cardinality({k \in 1..Len(line) :
                    \A j \in 1..k : line[j] \in {Bar, Blank}})

IsDirLine(line) == line[Len(line)] = "/"

NameOn(line) ==
    SubSeq(line, DepthOf(line) + 2,
           IF IsDirLine(line) THEN Len(line) - 1 ELSE Len(line))

\* The entry a line hangs under: the nearest earlier line one level up (0 at
\* the top level).
HolderOf(lines, i) ==
    LET up == {j \in 1..(i - 1) : DepthOf(lines[j]) = DepthOf(lines[i]) - 1}
    IN  IF up = {} THEN 0 ELSE Max(up)

RECURSIVE PathOn(_, _)
PathOn(lines, i) ==
    IF HolderOf(lines, i) = 0 THEN <<NameOn(lines[i])>>
    ELSE PathOn(lines, HolderOf(lines, i)) \o <<NameOn(lines[i])>>

\* The entries of the same level under the same holder.
Siblings(lines, i) ==
    {j \in 1..Len(lines) :
        /\ DepthOf(lines[j]) = DepthOf(lines[i])
        /\ HolderOf(lines, j) = HolderOf(lines, i)}

IsLastSibling(lines, i) == \A j \in Siblings(lines, i) : j <= i

\* The line, at or above line i, of its ancestor at depth k - 1.
RECURSIVE AncestorAt(_, _, _)
AncestorAt(lines, i, k) ==
    IF DepthOf(lines[i]) = k - 1 THEN i
    ELSE AncestorAt(lines, HolderOf(lines, i), k)

\* The directories strictly between the root and the retained paths.
DirsAbove(paths) == UNION {Ancestors(p) : p \in paths} \ {<<>>}

\* The rendering rules for a set of retained paths.
RenderedByRule(lines, paths) ==
    /\ \A i \in 1..Len(lines) :
          /\ lines[i][DepthOf(lines[i]) + 1] \in {Tee, Corner}
          /\ DepthOf(lines[i]) > 0 =>
                /\ HolderOf(lines, i) # 0
                /\ IsDirLine(lines[HolderOf(lines, i)])
                /\ \A j \in HolderOf(lines, i)..i :
                      DepthOf(lines[j]) >= DepthOf(lines[i]) - 1
          /\ IF IsDirLine(lines[i])
             THEN PathOn(lines, i) \in DirsAbove(paths)
             ELSE PathOn(lines, i) \in paths
          /\ (lines[i][DepthOf(lines[i]) + 1] = Corner)
                <=> IsLastSibling(lines, i)
          /\ \A k \in 1..DepthOf(lines[i]) :
                (lines[i][k] = Blank)
                    <=> IsLastSibling(lines, AncestorAt(lines, i, k))
          /\ \A j \in Siblings(lines, i) :
                i < j =>
                    /\ IsDirLine(lines[j]) => IsDirLine(lines[i])
                    /\ IsDirLine(lines[i]) = IsDirLine(lines[j]) =>
                          ~StrLess(NameOn(lines[j]), NameOn(lines[i]))
                    /\ IsDirLine(lines[i]) /\ IsDirLine(lines[j]) =>
                          NameOn(lines[i]) # NameOn(lines[j])
    /\ \A p \in paths :
          \E i \in 1..Len(lines) : ~IsDirLine(lines[i]) /\ PathOn(lines, i) = p
    /\ \A d \in DirsAbove(paths) :
          \E i \in 1..Len(lines) : IsDirLine(lines[i]) /\ PathOn(lines, i) = d

\* The six lines of the workspace example.
WorkspaceTree ==
    << <<"w", "/">>,
       <<Tee>> \o src \o <<"/">>,
       <<Bar, Tee>> \o utils \o <<"/">>,
       <<Bar, Bar, Corner>> \o h_py,
       <<Bar, Corner>> \o m_py,
       <<Corner>> \o a_txt >>

\* C17: the entry lines of every to_tree text follow the rendering rules for
\* the retained paths: each level lists its directories in sorted order, each
\* with a trailing "/" and directly followed by its own entries, then its
\* files in sorted order; the last entry of a level has the corner and its
\* descendants a blank, every other entry the tee and its descendants the
\* bar; and the workspace of the tests under the default rules renders as
\* the six lines of the example.
C17_TreeRendering ==
    (ret.op = "to_tree" /\ ret.outcome = "ok") =>
        /\ RenderedByRule(EntryLines(ret.value[1]),
                          Range(factory._gathered_paths[1]))
        /\ (/\ factory.root = <<"w">>
            /\ Range(factory._gathered_paths[1])
                  = {<<a_txt>>, <<src, m_py>>, <<src, utils, h_py>>})
              => ret.value[1] = WorkspaceTree

\* to_tree on the workspace of the tests, scanned under the default rules.
C17_Witness ==
    /\ ret.op = "to_tree" /\ ret.outcome = "ok" /\ ret.touched.scanned
    /\ fs.files = Workspace
    /\ ~factory.git_mode
    /\ dot_venv \in factory.ignore_parts
    /\ ret.value[1] = WorkspaceTree

\* C18 as stated: every to_tree text, that of a scan with no retained file
\* included, starts with the root line and has one more line per directory
\* that holds a retained file at any depth and per retained file.
C18_RootLineAndCount ==
    (ret.op = "to_tree" /\ ret.outcome = "ok") =>
        LET text == ret.value[1]
            paths == Range(factory._gathered_paths[1])
        IN  /\ Len(text) = 1 + Cardinality(DirsAbove(paths)) + Cardinality(paths)
            /\ text[1] = factory.root \o <<"/">>

\* The value of a member of a JSON object, and the place of its key.
KeyAt(obj, key) == CHOOSE i \in 1..Len(obj) : obj[i][1] = key
Member(obj, key) == obj[KeyAt(obj, key)][2]

\* Validation against the declared field types of BaseDirectoryModel
\* (stat_json: BaseFileStatModel, files: list[BaseFileModel]): the declared
\* class is built and keys it does not declare are ignored.
validate_stat(obj) ==
    LET Declared(member) == \E i \in 1..Len(StatBaseFields) :
                                StatBaseFields[i] = member[1]
    IN  [cls |-> "BaseFileStatModel", fields |-> SelectSeq(obj, Declared)]

validate_file(obj) ==
    [cls |-> "BaseFileModel",
     sha256 |-> Member(obj, "sha256"),
     stat_json |-> validate_stat(Member(obj, "stat_json")),
     path_json |-> Member(obj, "path_json")]

RECURSIVE model_validate_json(_)
model_validate_json(obj) ==
    [cls |-> "BaseDirectoryModel",
     path_json |-> Member(obj, "path_json"),
     stat_json |-> validate_stat(Member(obj, "stat_json")),
     files |-> [i \in 1..Len(Member(obj, "files")) |->
                  validate_file(Member(obj, "files")[i])],
     directories |-> [i \in 1..Len(Member(obj, "directories")) |->
                        model_validate_json(Member(obj, "directories")[i])]]

\* Every node of the document has its files before its directories.
RECURSIVE FilesFirst(_)
FilesFirst(obj) ==
    /\ KeyAt(obj, "files") < KeyAt(obj, "directories")
    /\ \A i \in 1..Len(Member(obj, "directories")) :
          FilesFirst(Member(obj, "directories")[i])

\* C19 as stated: reading the output of to_json back as a BaseDirectoryModel
\* gives a tree equal to the built one, whatever the depth and the host's
\* stat model, and every node of the output has its files before its
\* directories.
C19_JsonRoundTrip ==
    (ret.op = "to_json" /\ ret.outcome = "ok") =>
        /\ model_validate_json(ret.value[1]) = factory._model[1]
        /\ FilesFirst(ret.value[1])

\* The RootIdentity row a committed snapshot row is linked to, if any.
LinkedRoots(x) ==
    {r \in db[Owner(x)[1]] : r.id = Owner(x)[2]}

\* No name is held by two committed RootIdentity rows, every committed
\* snapshot is linked to a RootIdentity, and the snapshot a call returned is
\* committed and linked to the identity the call selected.
RaceSettled ==
    /\ \A table \in {"repositories", "folders"} :
          \A r1 \in db[table], r2 \in db[table] :
              r1.name = r2.name => r1 = r2
    /\ \A x \in db.snapshots : LinkedRoots(x) # {}
    /\ \A s \in SessionIds :
          (sessions[s].pc = "idle" /\ sessions[s].outcome = "ok") =>
              /\ sessions[s].snapshot \in db.snapshots
              /\ \A r \in LinkedRoots(sessions[s].snapshot) :
                    r.name = sessions[s].name

\* A call that found no RootIdentity of its name, and whose name another
\* session has committed since, has lost.
Lost(s) ==
    /\ sessions[s].pc = "missing"
    /\ \E r \in db[sessions[s].table] : r.name = sessions[s].name

\* The next step of a call that has lost raises IntegrityError to its caller
\* and commits nothing.
LoserRaises ==
    \A s \in SessionIds :
        (Lost(s) /\ sessions'[s] # sessions[s]) =>
            /\ sessions'[s].pc = "raised"
            /\ sessions'[s].outcome = "IntegrityError"
            /\ sessions'[s].tx = EmptyTables
            /\ db' = db

RECURSIVE FileEntriesOf(_)
RECURSIVE FileEntriesIn(_)
FileEntriesIn(directories) ==
    IF directories = <<>> THEN <<>>
    ELSE FileEntriesOf(Head(directories)) \o FileEntriesIn(Tail(directories))

FileEntriesOf(d) ==
    [i \in 1..Len(d.files) |-> d.files[i].path_json]
        \o FileEntriesIn(d.directories)

\* The paths of the file lines of a to_tree text, in the order of the lines.
FileLinePaths(text) ==
    LET lines == EntryLines(text)
        at == SelectSeq([i \in 1..Len(lines) |-> i],
                        LAMBDA i : ~IsDirLine(lines[i]))
    IN  [k \in 1..Len(at) |-> PathOn(lines, at[k])]

NoRepeat(seq) == \A i \in 1..Len(seq), j \in 1..Len(seq) :
                    seq[i] = seq[j] => i = j

\* C21 as stated: in both strategies no path occurs twice in the path list,
\* none has two FileEntries in the built tree and none has two lines in the
\* to_tree text, also when the version-control query lists a path more than
\* once.
C21_Deduplicated ==
    /\ factory._gathered_paths # Unset =>
          NoRepeat(factory._gathered_paths[1])
    /\ factory._model # Unset => NoRepeat(FileEntriesOf(factory._model[1]))
    /\ (ret.op = "to_tree" /\ ret.outcome = "ok") =>
          NoRepeat(FileLinePaths(ret.value[1]))

\* The candidates and the retained paths of the scan a step makes.
Candidates == Range(_scan(factory, fs).paths)
Retained == Range(factory'._gathered_paths[1])

\* No file beneath an excluded directory, at any depth, is a candidate or is
\* retained.
DescentStops ==
    \A d \in fs.dirs :
        _should_ignore(factory, d) =>
            \A P \in fs.files :
                IsUnder(P, d) => P \notin Candidates /\ P \notin Retained

\* Every direct file of a directory that is not excluded is a candidate.
DirectFilesTaken ==
    \A d \in fs.dirs :
        ~_should_ignore(factory, d) =>
            \A P \in fs.files : Parent(P) = d => P \in Candidates

\* C22 as stated: in the full walk (no git_mode), when the filter excludes a
\* directory, by an ignore_parts segment or by an ignore_pattern that matches
\* its name or extension, no file beneath it at any depth becomes a candidate
\* or is in the retained path list; all direct files of a directory that is
\* not excluded become candidates.
C22_DescentStops ==
    [][(Scans /\ ~factory.git_mode) =>
          DescentStops /\ DirectFilesTaken]_vars

\* The node d of a tree built from the retained paths is well formed: its
\* files have its path as their parent; each child directory lies directly
\* under it (so every path of the tree is the root's or below it, and longer
\* than its parent's: the tree is finite and has no cycle); the children's
\* names are in ascending order, hence distinct; each is the first segment
\* below d of a retained path strictly nested below d; and so for every
\* child.
RECURSIVE WellFormed(_, _)
WellFormed(d, paths) ==
    LET n == Len(d.path_json)
        NameAt(i) == d.directories[i].path_json[n + 1]
    IN  /\ d.cls = "BaseDirectoryModel"
        /\ \A i \in 1..Len(d.files) :
              /\ d.files[i].path_json # <<>>
              /\ Parent(d.files[i].path_json) = d.path_json
        /\ \A i \in 1..Len(d.directories) :
              /\ Len(d.directories[i].path_json) = n + 1
              /\ Parent(d.directories[i].path_json) = d.path_json
              /\ \E p \in paths :
                    /\ IsUnder(p, d.path_json)
                    /\ Len(p) > n + 1
                    /\ p[n + 1] = NameAt(i)
              /\ WellFormed(d.directories[i], paths)
        /\ \A i \in 1..Len(d.directories), j \in 1..Len(d.directories) :
              i < j => StrLess(NameAt(i), NameAt(j))

\* C23: every tree build has returned is well formed: the root node has the
\* root's path and every other node lies under it, every FileEntry of a node
\* has the node's path as its parent, the child directories of a node have
\* distinct names in sorted order, each the first relative segment of a
\* retained path strictly nested below the node, and the tree is finite and
\* acyclic.
C23_WellFormedTree ==
    factory._model # Unset =>
        /\ factory._model[1].path_json = <<>>
        /\ WellFormed(factory._model[1], Range(factory._gathered_paths[1]))

\* A build returned a tree whose root has two child directories, one of them
\* with a directory of its own.
C23_Witness ==
    /\ ret.op = "build" /\ ret.outcome = "ok" /\ ret.touched.scanned
    /\ Len(ret.value[1].directories) >= 2
    /\ \E i \in 1..Len(ret.value[1].directories) :
          /\ ret.value[1].directories[i].directories # <<>>
          /\ ret.value[1].directories[i].directories[1].files # <<>>

\* The paths of the file objects of a to_json document, at every depth.
RECURSIVE JsonPaths(_)
JsonPaths(obj) ==
    {Member(Member(obj, "files")[i], "path_json") :
        i \in 1..Len(Member(obj, "files"))}
      \cup UNION {JsonPaths(Member(obj, "directories")[i]) :
                    i \in 1..Len(Member(obj, "directories"))}

\* C24 as stated: after build the three views of a factory show the same set
\* of files: the paths of get_paths_list, the file lines of to_tree and the
\* FileEntries of the built tree (and of to_json) are the same paths, also
\* when the probe of a file failed during build and the file was skipped.
C24_SameFileSet ==
    factory._model # Unset =>
        LET listed == Range(factory._gathered_paths[1])
        IN  /\ TreePaths(factory._model[1]) = listed
            /\ (ret.op = "to_tree" /\ ret.outcome = "ok") =>
                  Range(FileLinePaths(ret.value[1])) = listed
            /\ (ret.op = "to_json" /\ ret.outcome = "ok") =>
                  JsonPaths(ret.value[1]) = listed
            /\ (ret.op = "get_paths_list" /\ ret.outcome = "ok") =>
                  Range(ret.value[1]) = listed

====
